---- MODULE Spec2Model ----
(***************************************************************************)
(* Model of bin/symlink-tree.py: the probe has_symlinks_recursive, the     *)
(* tree builder build_symlink_tree and the entry point main, run on a      *)
(* bounded family of filesystems.                                          *)
(*                                                                         *)
(* Paths are pathlib "parts" tuples: an absolute path starts with "/".     *)
(* A filesystem is a function from the absolute paths that exist to their  *)
(* inode: a file, a directory (whose listing may fail) or a symbolic link  *)
(* with its stored target.  The filesystem does not change during a run.   *)
(***************************************************************************)
EXTENDS Integers, Sequences, FiniteSets, TLC

VARIABLES fs, dir_order, cwd, max_depth, pc, root_tree, found, output, exit_code,
          stack, readme, tree_content, calls

vars == <<fs, dir_order, cwd, max_depth, pc, root_tree, found, output, exit_code,
          stack, readme, tree_content, calls>>

\* The state of update-readme-tree.py, which a run of symlink-tree.py leaves alone
readme_vars == <<readme, tree_content, calls>>

(***************************************************************************)
(* Bounds of the model.                                                    *)
(***************************************************************************)
\* entries created below the scan root
MaxEntries == 3
\* deepest level (path segments below the scan root) at which an entry is created
MaxLevel == 3
\* largest value given to --depth
MaxDepthArg == 2
\* symbolic links followed by one path resolution before it fails with ELOOP
MaxHops == 8

\* File names: single characters, so that string order is code point order.
Names == {"a", "B"}

\* str.lower() on the names of the model
Lower(name) == CASE name = "B" -> "b"
                 [] name = "A" -> "a"
                 [] OTHER -> name

\* code point of a one-character string
Ord(ch) == CASE ch = "A" -> 65
             [] ch = "B" -> 66
             [] ch = "a" -> 97
             [] ch = "b" -> 98
             [] OTHER -> 0

\* Optional values: None is the empty tuple, a present value x is <<x>>.
None == <<>>
Some(x) == <<x>>

Slash == <<"/">>
ScanRoot == <<"/", "scan">>
Elsewhere == <<"/", "else">>

(***************************************************************************)
(* Filesystem primitives (pathlib / POSIX semantics).                      *)
(***************************************************************************)
File == [kind |-> "file", listing |-> "ok", target |-> <<>>]
Dir(listing) == [kind |-> "dir", listing |-> listing, target |-> <<>>]
Link(target) == [kind |-> "link", listing |-> "ok", target |-> target]

\* PurePath.is_absolute
IsAbsolute(p) == Len(p) > 0 /\ p[1] = "/"

\* PurePath.parent
Parent(p) == SubSeq(p, 1, Len(p) - 1)

\* PurePath.name
BaseName(p) == p[Len(p)]

\* len(entry.relative_to(root_dir).parts)
RelativeDepth(entry, root_dir) == Len(entry) - Len(root_dir)

\* Path resolution as the kernel does it: from the resolved directory `cur`,
\* walk the components `rest`, following every symbolic link met (a relative
\* target is taken against the directory holding the link), giving up with
\* ELOOP after MaxHops links.
RECURSIVE Walk(_, _, _, _)
Walk(f, cur, rest, hops) ==
    IF rest = <<>> THEN [ok |-> TRUE, path |-> cur, err |-> "none"]
    ELSE IF f[cur].kind # "dir" THEN [ok |-> FALSE, path |-> cur \o rest, err |-> "ENOTDIR"]
    ELSE LET cand == Append(cur, Head(rest)) IN
         IF cand \notin DOMAIN f THEN [ok |-> FALSE, path |-> cand \o Tail(rest), err |-> "ENOENT"]
         ELSE IF f[cand].kind = "link"
              THEN IF hops = 0 THEN [ok |-> FALSE, path |-> cand \o Tail(rest), err |-> "ELOOP"]
                   ELSE LET t == f[cand].target IN
                        IF IsAbsolute(t)
                        THEN Walk(f, Slash, Tail(t) \o Tail(rest), hops - 1)
                        ELSE Walk(f, cur, t \o Tail(rest), hops - 1)
              ELSE Walk(f, cand, Tail(rest), hops)

\* os.stat(p): follows links; a relative path is taken against the working directory
Stat(f, wd, p) == IF IsAbsolute(p) THEN Walk(f, Slash, Tail(p), MaxHops)
                  ELSE Walk(f, wd, p, MaxHops)

\* os.lstat(p) of an absolute path: the last component is not followed
Lstat(f, p) == LET par == Walk(f, Slash, Tail(Parent(p)), MaxHops) IN
               IF ~par.ok THEN par
               ELSE IF par.path \in DOMAIN f /\ f[par.path].kind = "dir"
                       /\ Append(par.path, BaseName(p)) \in DOMAIN f
                    THEN [ok |-> TRUE, path |-> Append(par.path, BaseName(p)), err |-> "none"]
                    ELSE [ok |-> FALSE, path |-> p, err |-> "ENOENT"]

\* Path.exists: ENOENT, ENOTDIR and ELOOP are answered False
Exists(f, wd, p) == Stat(f, wd, p).ok

\* Path.is_dir: follows links
IsDir(f, wd, p) == LET s == Stat(f, wd, p) IN s.ok /\ f[s.path].kind = "dir"

\* Path.is_symlink
IsSymlink(f, p) == LET s == Lstat(f, p) IN s.ok /\ f[s.path].kind = "link"

\* Path.readlink
ReadLink(f, p) == f[Lstat(f, p).path].target

\* The names of a sequence that are entries of directory d, in the sequence's order
RECURSIVE Present(_, _, _)
Present(f, d, names) ==
    IF names = <<>> THEN <<>>
    ELSE (IF Append(d, Head(names)) \in DOMAIN f THEN <<Head(names)>> ELSE <<>>)
         \o Present(f, d, Tail(names))

\* Path.iterdir: the children of p in directory order, or the error listing raises
IterDir(f, order, p) ==
    LET s == Stat(f, Slash, p) IN
    IF ~s.ok \/ f[s.path].kind # "dir" THEN [status |-> "oserr", entries |-> <<>>]
    ELSE IF f[s.path].listing # "ok" THEN [status |-> f[s.path].listing, entries |-> <<>>]
    ELSE [status |-> "ok",
          entries |-> LET ns == Present(f, s.path, order) IN
                      [i \in 1..Len(ns) |-> Append(p, ns[i])]]

(***************************************************************************)
(* has_symlinks_recursive                                                  *)
(***************************************************************************)
RECURSIVE has_symlinks_recursive(_, _, _, _)
RECURSIVE ProbeEntries(_, _, _, _)

\* The loop over path.iterdir() with its early returns
ProbeEntries(f, entries, current_depth, max_d) ==
    IF entries = <<>> THEN FALSE
    ELSE LET entry == Head(entries) IN
         IF IsSymlink(f, entry) /\ (max_d = None \/ current_depth <= max_d[1])
         THEN TRUE
         ELSE IF IsDir(f, Slash, entry) /\ ~IsSymlink(f, entry)
                 /\ has_symlinks_recursive(f, entry, current_depth + 1, max_d)
              THEN TRUE
              ELSE ProbeEntries(f, Tail(entries), current_depth, max_d)

\* Mutant of has_symlinks_recursive: the error raised by listing a
\* subdirectory is not caught there and ends the probe of this directory
has_symlinks_recursive_Abort(f, path, current_depth, max_d) ==
    IF max_d # None /\ current_depth > max_d[1] THEN FALSE
    ELSE LET ls == IterDir(f, dir_order, path) IN
         IF ls.status # "ok" THEN FALSE
         ELSE IF \E i \in 1..Len(ls.entries) :
                    /\ IsDir(f, Slash, ls.entries[i])
                    /\ ~IsSymlink(f, ls.entries[i])
                    /\ IterDir(f, dir_order, ls.entries[i]).status # "ok"
              THEN FALSE
              ELSE ProbeEntries(f, ls.entries, current_depth, max_d)

\* A listing that raises PermissionError or OSError is swallowed: False
has_symlinks_recursive(f, path, current_depth, max_d) ==
    IF max_d # None /\ current_depth > max_d[1] THEN FALSE
    ELSE LET ls == IterDir(f, dir_order, path) IN
         IF ls.status # "ok" THEN FALSE
         ELSE ProbeEntries(f, ls.entries, current_depth, max_d)

(***************************************************************************)
(* build_symlink_tree                                                      *)
(***************************************************************************)
\* key=lambda e: (not e.is_dir(), e.name.lower())
SortKey(f, e) == [not_dir |-> ~IsDir(f, Slash, e), lower |-> Lower(BaseName(e))]

\* tuple comparison of two sort keys: False < True, then the strings
KeyLess(k1, k2) == \/ (~k1.not_dir /\ k2.not_dir)
                   \/ (k1.not_dir = k2.not_dir /\ Ord(k1.lower) < Ord(k2.lower))

\* x put into the sorted sequence s behind every element whose key is not greater
RECURSIVE InsertSorted(_, _, _)
InsertSorted(f, s, x) ==
    IF s = <<>> THEN <<x>>
    ELSE IF KeyLess(SortKey(f, x), SortKey(f, Head(s))) THEN <<x>> \o s
    ELSE <<Head(s)>> \o InsertSorted(f, Tail(s), x)

\* sorted(entries, key=...): a stable sort
RECURSIVE Sorted(_, _)
Sorted(f, entries) ==
    IF entries = <<>> THEN <<>>
    ELSE InsertSorted(f, Sorted(f, SubSeq(entries, 1, Len(entries) - 1)),
                      entries[Len(entries)])

\* Nodes of the rich tree
TreeNode(kind, name, path, display, broken, children) ==
    [kind |-> kind, name |-> name, path |-> path, target_display |-> display,
     broken |-> broken, children |-> children]

\* No tree yet
NoTree == TreeNode("none", "", <<>>, <<>>, FALSE, <<>>)

ErrorNode(text, path) == TreeNode("error", text, path, <<>>, FALSE, <<>>)

\* Path.resolve() of an absolute path, with the fallback to absolute() when
\* resolve raises on a symlink loop
ResolveDisplay(f, resolved) ==
    LET s == Stat(f, Slash, resolved) IN
    IF s.err = "ELOOP" THEN resolved ELSE s.path

\* The display target of a link
TargetDisplay(f, entry) ==
    LET target == ReadLink(f, entry) IN
    IF IsAbsolute(target) THEN target
    ELSE ResolveDisplay(f, Parent(entry) \o target)

\* is_broken: not target.exists(), target being what readlink returned
IsBroken(f, entry) == ~Exists(f, cwd, ReadLink(f, entry))

\* The label added for a symbolic link
LinkNode(f, entry) ==
    TreeNode("link", BaseName(entry), entry, TargetDisplay(f, entry),
             IsBroken(f, entry), <<>>)

RECURSIVE build_symlink_tree(_, _, _, _, _)
RECURSIVE BuildEntries(_, _, _, _, _)

Nothing == [children |-> <<>>, found |-> FALSE]

\* Mutant of VisitLink: the depth check of a link is left out
VisitLink_NoDepthCheck(f, root_dir, entry, max_d) ==
    [children |-> <<LinkNode(f, entry)>>, found |-> TRUE]

\* The branch of the loop for a symbolic link.  readlink() of an entry that
\* lstat has just shown to be a link does not fail on an unchanged filesystem,
\* so the "[broken: ...]" label of the outer except clause is never produced.
VisitLink(f, root_dir, entry, max_d) ==
    IF max_d # None /\ RelativeDepth(entry, root_dir) > max_d[1] THEN Nothing
    ELSE [children |-> <<LinkNode(f, entry)>>, found |-> TRUE]

\* Mutant of VisitDir: the directory node is kept when the recursive call found nothing
VisitDir_KeepEmpty(f, root_dir, entry, current_depth, max_d) ==
    IF has_symlinks_recursive(f, entry, current_depth + 1, max_d)
    THEN LET sub == build_symlink_tree(f, root_dir, entry, current_depth + 1, max_d) IN
         [children |-> <<TreeNode("dir", BaseName(entry), entry, <<>>, FALSE,
                                  sub.children)>>,
          found |-> sub.found]
    ELSE Nothing

\* The branch of the loop for a plain directory
VisitDir(f, root_dir, entry, current_depth, max_d) ==
    IF has_symlinks_recursive(f, entry, current_depth + 1, max_d)
    THEN LET sub == build_symlink_tree(f, root_dir, entry, current_depth + 1, max_d) IN
         IF ~sub.found THEN Nothing
         ELSE [children |-> <<TreeNode("dir", BaseName(entry), entry, <<>>, FALSE,
                                       sub.children)>>,
               found |-> TRUE]
    ELSE Nothing

\* Mutant of VisitEntry: is_dir(), which follows links, is tested before
\* is_symlink() (under a depth limit, where the descent through links ends)
VisitEntry_DirFirst(f, root_dir, entry, current_depth, max_d) ==
    IF IsDir(f, Slash, entry) /\ max_d # None
    THEN VisitDir(f, root_dir, entry, current_depth, max_d)
    ELSE IF IsSymlink(f, entry) THEN VisitLink(f, root_dir, entry, max_d)
    ELSE IF IsDir(f, Slash, entry) THEN VisitDir(f, root_dir, entry, current_depth, max_d)
    ELSE Nothing

\* One iteration of the loop over the sorted entries
VisitEntry(f, root_dir, entry, current_depth, max_d) ==
    IF IsSymlink(f, entry) THEN VisitLink(f, root_dir, entry, max_d)
    ELSE IF IsDir(f, Slash, entry) /\ ~IsSymlink(f, entry)
         THEN VisitDir(f, root_dir, entry, current_depth, max_d)
         ELSE Nothing

BuildEntries(f, root_dir, entries, current_depth, max_d) ==
    IF entries = <<>> THEN Nothing
    ELSE LET this == VisitEntry(f, root_dir, Head(entries), current_depth, max_d)
             rest == BuildEntries(f, root_dir, Tail(entries), current_depth, max_d)
         IN [children |-> this.children \o rest.children,
             found |-> this.found \/ rest.found]

\* What listing current_dir adds to parent_tree when it raises
ListingFailed(status, current_dir) ==
    [children |-> <<ErrorNode(IF status = "perm" THEN "[Permission denied]"
                                                  ELSE "[Error]", current_dir)>>,
     found |-> FALSE]

\* Returns the children added to parent_tree and the function's result
build_symlink_tree(f, root_dir, current_dir, current_depth, max_d) ==
    IF max_d # None /\ current_depth > max_d[1] THEN Nothing
    ELSE LET ls == IterDir(f, dir_order, current_dir) IN
         IF ls.status # "ok" THEN ListingFailed(ls.status, current_dir)
         ELSE BuildEntries(f, root_dir, Sorted(f, ls.entries), current_depth, max_d)

(***************************************************************************)
(* main                                                                    *)
(***************************************************************************)
\* target.rglob("*") as pathlib of Python 3.12 (the interpreter the script
\* asks for) computes it: every path below d; "**" does not enter symbolic
\* links and a directory that cannot be listed is skipped
RECURSIVE RGlob(_, _)
RGlob(f, d) ==
    LET ls == IterDir(f, dir_order, d) IN
    IF ls.status # "ok" THEN {}
    ELSE UNION {{ls.entries[i]} \cup
                (IF IsDir(f, Slash, ls.entries[i]) /\ ~IsSymlink(f, ls.entries[i])
                 THEN RGlob(f, ls.entries[i]) ELSE {})
                : i \in 1..Len(ls.entries)}

\* Mutant of SymlinkCount: the depth comparison is strict
SymlinkCount_Strict(f, target, depth) ==
    Cardinality({p \in RGlob(f, target) :
                    IsSymlink(f, p)
                    /\ (depth = None \/ RelativeDepth(p, target) < depth[1])})

\* The generator expression summed for the summary line
SymlinkCount(f, target, depth) ==
    Cardinality({p \in RGlob(f, target) :
                    IsSymlink(f, p)
                    /\ (depth = None \/ RelativeDepth(p, target) <= depth[1])})

\* depth_info is shown only for a truthy --depth
DepthInfo(depth) == IF depth # None /\ depth[1] # 0 THEN depth ELSE None

\* One console.print
Line(kind, tree, count) == [kind |-> kind, tree |-> tree, count |-> count]

\* The filesystems of the model: "/" holds the empty directory "else" and
\* possibly "scan"; below a listable scan root up to MaxEntries entries are
\* created, each a file, a directory (listable or not) or a symbolic link.
LinkTargets == {Append(ScanRoot, n) : n \in Names} \cup {<<"/", "missing">>}
               \cup {<<n>> : n \in Names}

Inodes == {File, Dir("ok"), Dir("perm"), Dir("oserr")} \cup {Link(t) : t \in LinkTargets}

Outside == (Slash :> Dir("ok")) @@ (Elsewhere :> Dir("ok"))

IsPrefix(p, q) == Len(p) <= Len(q) /\ SubSeq(q, 1, Len(p)) = p

Slots(f) == {Append(d, n) : d \in {x \in DOMAIN f : /\ IsPrefix(ScanRoot, x)
                                                   /\ f[x] = Dir("ok")
                                                   /\ RelativeDepth(x, ScanRoot) < MaxLevel},
                            n \in Names} \ DOMAIN f

RECURSIVE Populated(_)
Populated(k) ==
    IF k = 0 THEN {Outside @@ (ScanRoot :> Dir("ok"))}
    ELSE LET prev == Populated(k - 1) IN
         prev \cup UNION {{f @@ (p :> i) : p \in Slots(f), i \in Inodes} : f \in prev}

FileSystems == Populated(MaxEntries)
               \cup {Outside} \cup {Outside @@ (ScanRoot :> i) : i \in {File, Dir("perm"), Dir("oserr")}}

\* The orders in which a directory may return its entries
Orders == {o \in [1..Cardinality(Names) -> Names] : \A n \in Names : \E i \in DOMAIN o : o[i] = n}

DepthArgs == {None} \cup {Some(d) : d \in 0..MaxDepthArg}

Init ==
    /\ fs \in FileSystems
    /\ dir_order \in Orders
    /\ cwd \in {d \in {ScanRoot, Elsewhere} : IsDir(fs, Slash, d)}
    /\ max_depth \in DepthArgs
    /\ pc = "start"
    /\ root_tree = NoTree
    /\ found = FALSE
    /\ output = <<>>
    /\ exit_code = None
    /\ stack = <<>>
    /\ readme = <<>>
    /\ tree_content = <<>>
    /\ calls = <<>>

\* if not target.exists(): print the error, return 1
PathMissing ==
    /\ pc = "start"
    /\ ~Exists(fs, cwd, ScanRoot)
    /\ output' = Append(output, Line("error_missing", NoTree, None))
    /\ exit_code' = Some(1)
    /\ pc' = "done"
    /\ UNCHANGED <<stack, readme_vars, fs, dir_order, cwd, max_depth, root_tree, found>>

\* Mutant of NotADirectory: the error is printed but 0 is returned
NotADirectory_ExitZero ==
    /\ pc = "start"
    /\ Exists(fs, cwd, ScanRoot)
    /\ ~IsDir(fs, cwd, ScanRoot)
    /\ output' = Append(output, Line("error_not_dir", NoTree, None))
    /\ exit_code' = Some(0)
    /\ pc' = "done"
    /\ UNCHANGED <<stack, readme_vars, fs, dir_order, cwd, max_depth, root_tree, found>>

\* if not target.is_dir(): print the error, return 1
NotADirectory ==
    /\ pc = "start"
    /\ Exists(fs, cwd, ScanRoot)
    /\ ~IsDir(fs, cwd, ScanRoot)
    /\ output' = Append(output, Line("error_not_dir", NoTree, None))
    /\ exit_code' = Some(1)
    /\ pc' = "done"
    /\ UNCHANGED <<stack, readme_vars, fs, dir_order, cwd, max_depth, root_tree, found>>

\* root_tree = Tree(root_label); found = build_symlink_tree(target, target, root_tree, ...)
BuildTree ==
    /\ pc = "start"
    /\ Exists(fs, cwd, ScanRoot)
    /\ IsDir(fs, cwd, ScanRoot)
    /\ LET built == build_symlink_tree(fs, ScanRoot, ScanRoot, 0, max_depth) IN
       /\ root_tree' = TreeNode("root", "/scan/", ScanRoot, DepthInfo(max_depth), FALSE,
                                built.children)
       /\ found' = built.found
    /\ pc' = "built"
    /\ UNCHANGED <<stack, readme_vars, fs, dir_order, cwd, max_depth, output, exit_code>>

\* if not found: print "No symlinks found", return 0
NoSymlinks ==
    /\ pc = "built"
    /\ ~found
    /\ output' = Append(output, Line("no_symlinks", NoTree, None))
    /\ exit_code' = Some(0)
    /\ pc' = "done"
    /\ UNCHANGED <<stack, readme_vars, fs, dir_order, cwd, max_depth, root_tree, found>>

\* Mutant of PrintTree: the tree is printed whether or not anything was found
PrintTree_Always ==
    /\ pc = "built"
    /\ output' = Append(output, Line("tree", root_tree, None))
    /\ pc' = "printed"
    /\ UNCHANGED <<stack, readme_vars, fs, dir_order, cwd, max_depth, root_tree, found, exit_code>>

\* console.print(root_tree)
PrintTree ==
    /\ pc = "built"
    /\ found
    /\ output' = Append(output, Line("tree", root_tree, None))
    /\ pc' = "printed"
    /\ UNCHANGED <<stack, readme_vars, fs, dir_order, cwd, max_depth, root_tree, found, exit_code>>

\* the re-scan, the "Symlinks shown" line, return 0
PrintSummary ==
    /\ pc = "printed"
    /\ output' = Append(output, Line("count", NoTree,
                                     Some(SymlinkCount(fs, ScanRoot, max_depth))))
    /\ exit_code' = Some(0)
    /\ pc' = "done"
    /\ UNCHANGED <<stack, readme_vars, fs, dir_order, cwd, max_depth, root_tree, found>>

Next == \/ PathMissing
        \/ NotADirectory
        \/ BuildTree
        \/ NoSymlinks
        \/ PrintTree
        \/ PrintSummary

Spec == Init /\ [][Next]_vars

(***************************************************************************)
(* What the claims speak about.                                            *)
(***************************************************************************)
\* Every node below n
RECURSIVE Descendants(_)
Descendants(n) ==
    UNION {{n.children[i]} \cup Descendants(n.children[i]) : i \in 1..Len(n.children)}

\* Number of LinkEntry nodes below n
RECURSIVE CountLinks(_)
RECURSIVE CountLinksIn(_)
CountLinksIn(nodes) ==
    IF nodes = <<>> THEN 0 ELSE CountLinks(Head(nodes)) + CountLinksIn(Tail(nodes))
CountLinks(n) == (IF n.kind = "link" THEN 1 ELSE 0) + CountLinksIn(n.children)

\* The trees printed so far
RenderedTrees == {output[i].tree : i \in {j \in DOMAIN output : output[j].kind = "tree"}}

\* build_symlink_tree has returned
WalkDone == pc \in {"built", "printed"} \/ (pc = "done" /\ root_tree.kind = "root")

\* Path segments below the scan root
SegmentsBelowRoot(p) == Len(p) - Len(ScanRoot)

WithinLimit(p) == max_depth = None \/ SegmentsBelowRoot(p) <= max_depth[1]

\* The entries below the scan root that are reached through listable plain directories
ReachableEntries ==
    {p \in DOMAIN fs : /\ IsPrefix(ScanRoot, p)
                       /\ p # ScanRoot
                       /\ \A k \in Len(ScanRoot)..(Len(p) - 1) :
                              fs[SubSeq(p, 1, k)] = Dir("ok")}

\* The symbolic links the walk has to report
QualifyingLinks == {p \in ReachableEntries : fs[p].kind = "link" /\ WithinLimit(p)}

\* The plain directories below the scan root
PlainDirs == {p \in ReachableEntries : fs[p].kind = "dir"}

\* C1: in every rendered tree each DirectoryNode has, among its transitive
\* children, a LinkEntry whose depth is within the active limit.
C1_PruningInvariant ==
    \A t \in RenderedTrees :
        \A d \in Descendants(t) :
            d.kind = "dir" =>
                \E l \in Descendants(d) : l.kind = "link" /\ WithinLimit(l.path)

\* C1 witness: a rendered tree holds a DirectoryNode under a depth limit while
\* another plain directory of the filesystem was left out of it.
C1_Witness ==
    /\ max_depth # None
    /\ \E t \in RenderedTrees :
          /\ \E d \in Descendants(t) : d.kind = "dir"
          /\ \E p \in PlainDirs : \A d \in Descendants(t) : d.path # p

\* C2: the LinkEntry nodes build_symlink_tree emits are exactly the symbolic
\* links reachable through listable plain directories whose depth (a direct
\* child of the root is at depth 1) is within the limit; all of them without a limit.
C2_DepthFilter ==
    WalkDone =>
        {n.path : n \in {x \in Descendants(root_tree) : x.kind = "link"}} = QualifyingLinks

\* C2 witness: under a limit, one link is emitted and another lies too deep.
C2_Witness ==
    /\ WalkDone
    /\ max_depth # None
    /\ \E n \in Descendants(root_tree) : n.kind = "link"
    /\ \E p \in ReachableEntries : fs[p].kind = "link" /\ ~WithinLimit(p)

\* C3: the number of the "Symlinks shown" line equals the number of LinkEntry
\* nodes of the tree that was rendered.
C3_CountConsistency ==
    \A i \in DOMAIN output :
        output[i].kind = "count" =>
            /\ Cardinality(RenderedTrees) = 1
            /\ \A t \in RenderedTrees : output[i].count = Some(CountLinks(t))

\* C3 witness: a count line after a tree with links at two levels, one link
\* being beyond the limit.
C3_Witness ==
    /\ \E i \in DOMAIN output : output[i].kind = "count" /\ output[i].count[1] >= 2
    /\ \E t \in RenderedTrees : \E d \in Descendants(t) : d.kind = "dir"
    /\ max_depth # None

\* Whether the path a link points to exists, a relative target being taken
\* against the directory that holds the link
PointsToExisting(p) == Exists(fs, Parent(p), fs[p].target)

\* C4: every emitted LinkEntry is flagged broken exactly when the path it
\* points to (a relative target taken against the link's parent directory)
\* does not exist, whatever the working directory of the process.
C4_BrokenDetection ==
    \A t \in RenderedTrees :
        \A l \in Descendants(t) :
            l.kind = "link" => (l.broken <=> ~PointsToExisting(l.path))

\* C5: among the children rendered for one directory every DirectoryNode comes
\* before every LinkEntry, and within each group the names are in
\* case-insensitive alphabetical order.
C5_SortOrder ==
    \A t \in RenderedTrees :
        \A n \in {t} \cup Descendants(t) :
            \A i, j \in 1..Len(n.children) :
                i < j =>
                    /\ ~(n.children[i].kind = "link" /\ n.children[j].kind = "dir")
                    /\ (n.children[i].kind = n.children[j].kind =>
                            Ord(Lower(n.children[i].name)) <= Ord(Lower(n.children[j].name)))

\* The directories the walk lists and whose listing fails: the scan root or a
\* plain directory below it within the depth limit
FailingDirs ==
    {d \in PlainDirs \cup {ScanRoot} : fs[d].kind = "dir" /\ fs[d].listing # "ok" /\ WithinLimit(d)}

\* C6: once the run has ended after a walk, every directory whose listing
\* failed has an error placeholder in its branch of the output.
C6_ErrorPlaceholderShown ==
    (pc = "done" /\ root_tree.kind = "root") =>
        \A d \in FailingDirs :
            \E t \in RenderedTrees :
                \E e \in Descendants(t) : e.kind = "error" /\ e.path = d

\* The plain directories below the scan root whose listing fails
UnlistableDirs == {d \in PlainDirs : fs[d].listing # "ok"}

\* The filesystem with directory d empty and listable
Emptied(f, d) == [f EXCEPT ![d] = Dir("ok")]

\* C7: a directory D below the scan root whose listing fails does not stop the
\* walk: what build_symlink_tree emits is what it emits with D empty, and the
\* run ends with exit code 0.
C7_FailureContainment ==
    UnlistableDirs # {} =>
        /\ WalkDone =>
              \A d \in UnlistableDirs :
                  LET e == build_symlink_tree(Emptied(fs, d), ScanRoot, ScanRoot, 0, max_depth)
                  IN root_tree.children = e.children /\ found = e.found
        /\ pc = "done" => root_tree.kind = "root" /\ exit_code = Some(0)

\* C7 witness: the run has ended with links emitted beside a directory, within
\* the depth limit, whose listing failed.
C7_Witness ==
    /\ pc = "done"
    /\ \E d \in UnlistableDirs : WithinLimit(d) /\ Len(d) > Len(ScanRoot) + 1
    /\ \E n \in Descendants(root_tree) : n.kind = "link"

\* C8: no node of the tree lies at or below a symbolic link to a directory:
\* a DirectoryNode is a plain directory and every node is reached through plain
\* directories only; a link to a directory that the walk reports is a LinkEntry
\* without children whose shown target leads to that directory.
C8_SymlinkedDirHandling ==
    WalkDone =>
        /\ \A n \in Descendants(root_tree) :
              n.kind \in {"dir", "link"} =>
                  \A k \in (Len(ScanRoot) + 1)..(Len(n.path) - (IF n.kind = "dir" THEN 0 ELSE 1)) :
                      /\ SubSeq(n.path, 1, k) \in DOMAIN fs
                      /\ fs[SubSeq(n.path, 1, k)].kind = "dir"
        /\ \A p \in QualifyingLinks :
              IsDir(fs, Slash, p) =>
                  \E n \in Descendants(root_tree) :
                      /\ n.kind = "link"
                      /\ n.path = p
                      /\ n.children = <<>>
                      /\ Stat(fs, Slash, n.target_display) = Stat(fs, Slash, p)

\* C8 witness: a reported link points to a directory that holds a symbolic link.
C8_Witness ==
    /\ WalkDone
    /\ max_depth # None
    /\ \E n \in Descendants(root_tree) :
          /\ n.kind = "link"
          /\ IsDir(fs, Slash, n.path)
          /\ \E q \in DOMAIN fs : /\ Len(q) > 1
                                  /\ Parent(q) = Stat(fs, Slash, n.path).path
                                  /\ fs[q].kind = "link"

\* What the scan root is
RootKind == IF ScanRoot \in DOMAIN fs THEN fs[ScanRoot].kind ELSE "missing"

\* C9: when the scan root is missing or no directory, main prints one error,
\* returns a non-zero code and never starts the walk; when it is a directory,
\* main returns 0.
C9_ExitBehaviour ==
    /\ exit_code # None => pc = "done"
    /\ RootKind # "dir" =>
          /\ root_tree = NoTree
          /\ \A i \in DOMAIN output : output[i].kind \in {"error_missing", "error_not_dir"}
    /\ pc = "done" =>
          IF RootKind # "dir"
          THEN /\ exit_code # None /\ exit_code[1] # 0
               /\ Len(output) = 1
          ELSE exit_code = Some(0)

\* C9 witness: the run has ended on a scan root that is a file.
C9_Witness == pc = "done" /\ RootKind = "file" /\ output # <<>>

\* C10: when no symbolic link lies under the scan root within the limit, the
\* output is the single "No symlinks found" line and the exit code is 0; no
\* rendered tree is without a LinkEntry.
C10_NoSymlinksResult ==
    /\ (pc = "done" /\ RootKind = "dir" /\ QualifyingLinks = {}) =>
          /\ output = <<Line("no_symlinks", NoTree, None)>>
          /\ exit_code = Some(0)
    /\ \A t \in RenderedTrees : CountLinks(t) >= 1

\* C10 witness: the run ended with "No symlinks found" although a plain
\* directory at the limit holds a link just beyond it.
C10_Witness ==
    /\ pc = "done"
    /\ output = <<Line("no_symlinks", NoTree, None)>>
    /\ \E p \in ReachableEntries :
          fs[p].kind = "link" /\ ~WithinLimit(p) /\ WithinLimit(Parent(p))

\* The plain directories build_symlink_tree probes: the directory holding
\* them is listed by a call of build_symlink_tree, which happens when it is
\* within the limit and every directory on the way down probed true.
ProbedDirs ==
    {d \in PlainDirs :
        /\ WithinLimit(Parent(d))
        /\ \A k \in (Len(ScanRoot) + 1)..(Len(d) - 1) :
               has_symlinks_recursive(fs, SubSeq(d, 1, k), k - Len(ScanRoot), max_depth)}

\* C11: for every plain directory D that build_symlink_tree probes, the probe
\* (called with D's depth below the scan root) answers true exactly when a
\* symbolic link within the depth limit lies in D or in a listable plain
\* subdirectory of D.
C11_ProbeCorrectness ==
    WalkDone =>
        \A d \in ProbedDirs :
            has_symlinks_recursive(fs, d, SegmentsBelowRoot(d), max_depth)
                <=> (\E p \in QualifyingLinks : IsPrefix(d, p) /\ p # d)

(***************************************************************************)
(* The walk of main, one interpreter step at a time: the call stack of     *)
(* has_symlinks_recursive and build_symlink_tree.                          *)
(***************************************************************************)
\* What the walk neither reads nor writes, or only reads
walk_env == <<fs, dir_order, cwd, max_depth, output, exit_code, readme_vars>>

\* The frame of a call that has not yet run its first statement.  entries is
\* what the loop still has to visit, children what the call has added to
\* parent_tree, ret and sub what the last callee returned and added.
Frame(fn, dir, depth) ==
    [fn |-> fn, dir |-> dir, depth |-> depth, state |-> "enter", entries |-> <<>>,
     found |-> FALSE, children |-> <<>>, ret |-> None, sub |-> <<>>]

Top == stack[Len(stack)]

Running(fn, state) ==
    /\ pc = "walk"
    /\ stack # <<>>
    /\ Top.fn = fn
    /\ Top.state = state

\* The running call goes on as frame fr
Step(fr) ==
    /\ stack' = [stack EXCEPT ![Len(stack)] = fr]
    /\ UNCHANGED <<pc, found, root_tree>>

\* The running call waits in the given state for the callee
Call(state, callee) ==
    /\ stack' = Append([stack EXCEPT ![Len(stack)].state = state], callee)
    /\ UNCHANGED <<pc, found, root_tree>>

\* return value; the outermost call returns to main (found = ...)
Return(value, children) ==
    IF Len(stack) = 1
    THEN /\ stack' = <<>>
         /\ found' = value
         /\ root_tree' = TreeNode("root", "/scan/", ScanRoot, DepthInfo(max_depth), FALSE,
                                  children)
         /\ pc' = "walked"
    ELSE /\ stack' = [SubSeq(stack, 1, Len(stack) - 1)
                        EXCEPT ![Len(stack) - 1].ret = Some(value),
                               ![Len(stack) - 1].sub = children]
         /\ UNCHANGED <<pc, found, root_tree>>

\* The guard, then path.iterdir() inside the try
ProbeEnter ==
    /\ Running("probe", "enter")
    /\ IF max_depth # None /\ Top.depth > max_depth[1] THEN Return(FALSE, <<>>)
       ELSE LET ls == IterDir(fs, dir_order, Top.dir) IN
            IF ls.status # "ok" THEN Return(FALSE, <<>>)
            ELSE Step([Top EXCEPT !.state = "loop", !.entries = ls.entries])
    /\ UNCHANGED walk_env

\* One entry of the probe's loop
ProbeVisit ==
    /\ Running("probe", "loop")
    /\ Top.entries # <<>>
    /\ LET entry == Head(Top.entries) IN
       IF IsSymlink(fs, entry) /\ (max_depth = None \/ Top.depth <= max_depth[1])
       THEN Return(TRUE, <<>>)
       ELSE IF IsDir(fs, Slash, entry) /\ ~IsSymlink(fs, entry)
            THEN Call("probing", Frame("probe", entry, Top.depth + 1))
            ELSE Step([Top EXCEPT !.entries = Tail(@)])
    /\ UNCHANGED walk_env

\* The recursive probe has returned
ProbeResume ==
    /\ Running("probe", "probing")
    /\ Top.ret # None
    /\ IF Top.ret[1] THEN Return(TRUE, <<>>)
       ELSE Step([Top EXCEPT !.state = "loop", !.entries = Tail(@), !.ret = None])
    /\ UNCHANGED walk_env

\* The loop is over: return False
ProbeExhausted ==
    /\ Running("probe", "loop")
    /\ Top.entries = <<>>
    /\ Return(FALSE, <<>>)
    /\ UNCHANGED walk_env


\* The guard, then sorted(current_dir.iterdir(), key=...) inside the try
BuildEnter ==
    /\ Running("build", "enter")
    /\ IF max_depth # None /\ Top.depth > max_depth[1] THEN Return(FALSE, <<>>)
       ELSE LET ls == IterDir(fs, dir_order, Top.dir) IN
            IF ls.status # "ok"
            THEN Return(FALSE, ListingFailed(ls.status, Top.dir).children)
            ELSE Step([Top EXCEPT !.state = "loop", !.entries = Sorted(fs, ls.entries)])
    /\ UNCHANGED walk_env

\* Mutant of BuildVisit: is_dir(), which follows links, is tested before is_symlink()
BuildVisit_DirFirst ==
    /\ Running("build", "loop")
    /\ Top.entries # <<>>
    /\ LET entry == Head(Top.entries) IN
       IF IsDir(fs, Slash, entry)
       THEN Call("probing", Frame("probe", entry, Top.depth + 1))
       ELSE IF IsSymlink(fs, entry)
            THEN LET link == VisitLink(fs, ScanRoot, entry, max_depth) IN
                 Step([Top EXCEPT !.entries = Tail(@),
                                  !.children = @ \o link.children,
                                  !.found = @ \/ link.found])
            ELSE Step([Top EXCEPT !.entries = Tail(@)])
    /\ UNCHANGED walk_env

\* One entry of the builder's loop: a link is labelled, a plain directory probed
BuildVisit ==
    /\ Running("build", "loop")
    /\ Top.entries # <<>>
    /\ LET entry == Head(Top.entries) IN
       IF IsSymlink(fs, entry)
       THEN LET link == VisitLink(fs, ScanRoot, entry, max_depth) IN
            Step([Top EXCEPT !.entries = Tail(@),
                             !.children = @ \o link.children,
                             !.found = @ \/ link.found])
       ELSE IF IsDir(fs, Slash, entry) /\ ~IsSymlink(fs, entry)
            THEN Call("probing", Frame("probe", entry, Top.depth + 1))
            ELSE Step([Top EXCEPT !.entries = Tail(@)])
    /\ UNCHANGED walk_env

\* The probe of the entry has returned: descend when it said True
BuildAfterProbe ==
    /\ Running("build", "probing")
    /\ Top.ret # None
    /\ IF Top.ret[1]
       THEN stack' = Append([stack EXCEPT ![Len(stack)].state = "building",
                                          ![Len(stack)].ret = None],
                            Frame("build", Head(Top.entries), Top.depth + 1))
       ELSE stack' = [stack EXCEPT ![Len(stack)] =
                          [Top EXCEPT !.state = "loop", !.entries = Tail(@), !.ret = None]]
    /\ UNCHANGED <<pc, found, root_tree>>
    /\ UNCHANGED walk_env

\* The recursive build has returned: keep dir_node or remove it again
BuildAfterSub ==
    /\ Running("build", "building")
    /\ Top.ret # None
    /\ LET entry == Head(Top.entries) IN
       IF ~Top.ret[1]
       THEN Step([Top EXCEPT !.state = "loop", !.entries = Tail(@), !.ret = None,
                             !.sub = <<>>])
       ELSE Step([Top EXCEPT !.state = "loop", !.entries = Tail(@), !.ret = None,
                             !.sub = <<>>,
                             !.children = Append(@, TreeNode("dir", BaseName(entry), entry,
                                                             <<>>, FALSE, Top.sub)),
                             !.found = TRUE])
    /\ UNCHANGED walk_env

\* The loop is over: return found_symlinks
BuildExhausted ==
    /\ Running("build", "loop")
    /\ Top.entries = <<>>
    /\ Return(Top.found, Top.children)
    /\ UNCHANGED walk_env

\* main has checked that the scan root is a directory and calls
\* build_symlink_tree(target, target, root_tree, max_depth=args.depth)
WalkInit ==
    /\ fs \in {f \in FileSystems : IsDir(f, Slash, ScanRoot)}
    /\ dir_order \in Orders
    /\ cwd \in {ScanRoot, Elsewhere}
    /\ max_depth \in DepthArgs
    /\ pc = "walk"
    /\ root_tree = NoTree
    /\ found = FALSE
    /\ output = <<>>
    /\ exit_code = None
    /\ stack = <<Frame("build", ScanRoot, 0)>>
    /\ readme = <<>>
    /\ tree_content = <<>>
    /\ calls = <<>>

WalkNext == \/ ProbeEnter
            \/ ProbeVisit
            \/ ProbeResume
            \/ ProbeExhausted
            \/ BuildEnter
            \/ BuildVisit
            \/ BuildAfterProbe
            \/ BuildAfterSub
            \/ BuildExhausted

\* The frames in which the running call has a next statement: a call that
\* waits for its callee is on top of the stack only once the callee has returned
CanStep ==
    /\ stack # <<>>
    /\ \/ Top.state \in {"enter", "loop"}
       \/ Top.state \in {"probing", "building"} /\ Top.ret # None

\* The interpreter runs its one thread, so a step that can be taken is taken:
\* weak fairness of WalkNext, WF_vars(WalkNext), with ENABLED <<WalkNext>>_vars
\* written out as pc = "walk" (every step changes stack, and C12 checks that a
\* walk that has not returned can step)
WalkFairness == []<><<WalkNext>>_vars \/ []<>(pc # "walk")

WalkSpec == WalkInit /\ [][WalkNext]_vars /\ WalkFairness

\* What the recursive definition of the walk computes for the same inputs
WalkResult == build_symlink_tree(fs, ScanRoot, ScanRoot, 0, max_depth)

\* The stepped walk returns what the recursive definition returns
WalkAgrees ==
    pc = "walked" =>
        /\ found = WalkResult.found
        /\ root_tree.children = WalkResult.children


\* Every call below the outermost one runs on a plain directory of the
\* filesystem, an entry of its caller's directory, one level deeper, and no
\* call runs more than one level below the depth limit
RecursionEntersPlainDirs ==
    \A i \in 1..Len(stack) :
        /\ i = 1 => stack[i].dir = ScanRoot /\ stack[i].depth = 0
        /\ i > 1 => /\ stack[i].dir \in PlainDirs
                    /\ Parent(stack[i].dir) = stack[i - 1].dir
                    /\ stack[i].depth = stack[i - 1].depth + 1
        /\ stack[i].depth = SegmentsBelowRoot(stack[i].dir)
        /\ max_depth # None => stack[i].depth <= max_depth[1] + 1

\* The links that point to a directory above themselves
AncestorLinks ==
    {p \in ReachableEntries :
        /\ fs[p].kind = "link"
        /\ IsDir(fs, Slash, p)
        /\ IsPrefix(Stat(fs, Slash, p).path, p)}

\* The links whose chain of targets comes back to a link of the chain
CircularLinks ==
    {p \in ReachableEntries : fs[p].kind = "link" /\ Stat(fs, Slash, p).err = "ELOOP"}

\* C12: the walk started from the scan root terminates, whatever the links of
\* the filesystem point to and whatever the depth limit: every call runs on a
\* plain directory one level below its caller's, the walk is never stuck, and
\* the outermost call eventually returns to main.
C12_Termination ==
    /\ []RecursionEntersPlainDirs
    /\ [](pc = "walk" => CanStep)
    /\ <>(pc = "walked")

\* The walk has returned, without a depth limit, on a filesystem that has a
\* link to its own ancestor and a circular link
C12_Witness ==
    /\ pc = "walked"
    /\ max_depth = None
    /\ AncestorLinks # {}
    /\ CircularLinks # {}


(***************************************************************************)
(* update-readme-tree.py: update_readme.  A text is a sequence of tokens:  *)
(* "START" is the two lines the pattern begins with, "END" the two lines   *)
(* it ends with, "LF" and "CRLF" are line ends and "text" is anything      *)
(* else.  Neither marker overlaps itself or the other, so a match of the   *)
(* pattern is a "START" and the first "END" behind it.                     *)
(***************************************************************************)
MaxReadmeLen == 3

MaxTreeLen == 2

MaxCalls == 2

Tokens == {"START", "END", "text", "LF", "CRLF"}

Texts(n) == UNION {[1..k -> Tokens] : k \in 0..n}

\* Path.read_text: the file is opened with universal newlines, "\r\n" reads as "\n"
read_text(bytes) ==
    [i \in 1..Len(bytes) |-> IF bytes[i] = "CRLF" THEN "LF" ELSE bytes[i]]

\* os.linesep of the POSIX system the script's "#!/usr/bin/env -S" line asks for
linesep == "LF"

\* Path.write_text: "\n" is written as os.linesep, everything else as it is
write_text(data) ==
    [i \in 1..Len(data) |-> IF data[i] = "LF" THEN linesep ELSE data[i]]

\* re.search(pattern, readme_content, re.DOTALL): the leftmost start marker
\* that has an end marker behind it, and with (.*?) the nearest such end marker
search(readme_content) ==
    LET starts == {i \in 1..Len(readme_content) :
                      /\ readme_content[i] = "START"
                      /\ \E j \in (i + 1)..Len(readme_content) : readme_content[j] = "END"}
    IN IF starts = {} THEN None
       ELSE LET i == CHOOSE x \in starts : \A y \in starts : x <= y
                ends == {j \in (i + 1)..Len(readme_content) : readme_content[j] = "END"}
            IN Some([start |-> i, end |-> CHOOSE x \in ends : \A y \in ends : x <= y])

\* f"<!-- AGENTS-SKILLS-TREE:START -->\n```console\n{tree_content}\n```\n<!-- ...END -->"
new_section(content) == <<"START">> \o content \o <<"LF">> \o <<"END">>

\* What one call returned and what it did to the file
CallRecord(returned, before, after) ==
    [returned |-> returned, before |-> before, after |-> after]

\* if not match: print the error, return False
MarkersMissing ==
    /\ pc = "readme"
    /\ Len(calls) < MaxCalls
    /\ search(read_text(readme)) = None
    /\ calls' = Append(calls, CallRecord(FALSE, readme, readme))
    /\ UNCHANGED <<readme, tree_content>>
    /\ UNCHANGED <<fs, dir_order, cwd, max_depth, pc, root_tree, found, output, exit_code, stack>>

\* if match.group(0) == new_section: return False
AlreadyUpToDate ==
    /\ pc = "readme"
    /\ Len(calls) < MaxCalls
    /\ LET readme_content == read_text(readme)
           match == search(readme_content)
       IN /\ match # None
          /\ SubSeq(readme_content, match[1].start, match[1].end) = new_section(tree_content)
    /\ calls' = Append(calls, CallRecord(FALSE, readme, readme))
    /\ UNCHANGED <<readme, tree_content>>
    /\ UNCHANGED <<fs, dir_order, cwd, max_depth, pc, root_tree, found, output, exit_code, stack>>

\* The section is replaced and the file written: return True
Rewrite ==
    /\ pc = "readme"
    /\ Len(calls) < MaxCalls
    /\ LET readme_content == read_text(readme)
           match == search(readme_content)
       IN /\ match # None
          /\ SubSeq(readme_content, match[1].start, match[1].end) # new_section(tree_content)
          /\ LET new_content == SubSeq(readme_content, 1, match[1].start - 1)
                                \o new_section(tree_content)
                                \o SubSeq(readme_content, match[1].end + 1,
                                          Len(readme_content))
             IN /\ readme' = write_text(new_content)
                /\ calls' = Append(calls, CallRecord(TRUE, readme, write_text(new_content)))
    /\ UNCHANGED tree_content
    /\ UNCHANGED <<fs, dir_order, cwd, max_depth, pc, root_tree, found, output, exit_code, stack>>

\* Any README and any tree content, update_readme not yet called
ReadmeInit ==
    /\ readme \in Texts(MaxReadmeLen)
    /\ tree_content \in Texts(MaxTreeLen)
    /\ calls = <<>>
    /\ pc = "readme"
    /\ fs = Outside
    /\ dir_order = <<"a", "B">>
    /\ cwd = Elsewhere
    /\ max_depth = None
    /\ root_tree = NoTree
    /\ found = FALSE
    /\ output = <<>>
    /\ exit_code = None
    /\ stack = <<>>

\* update_readme is called again and again with the same tree_content
ReadmeNext == \/ MarkersMissing
              \/ AlreadyUpToDate
              \/ Rewrite

ReadmeSpec == ReadmeInit /\ [][ReadmeNext]_vars


IsSuffix(p, q) == Len(p) <= Len(q) /\ SubSeq(q, Len(q) - Len(p) + 1, Len(q)) = p

\* The call found the markers in the file it was given
FoundMarkers(call) == search(read_text(call.before)) # None

\* The bytes in front of the matched start marker and behind the matched end
\* marker are, after the call, still the beginning and the end of the file
OutsidePreserved(call) ==
    LET match == search(read_text(call.before)) IN
    match # None =>
        /\ IsPrefix(SubSeq(call.before, 1, match[1].start - 1), call.after)
        /\ IsSuffix(SubSeq(call.before, match[1].end + 1, Len(call.before)), call.after)

\* C13: when update_readme has run on a README that holds the markers, a second
\* call with the same tree content returns False and leaves the file as it is,
\* and each of the two calls keeps the bytes before the start marker and after
\* the end marker.
C13_Idempotence ==
    (Len(calls) >= 2 /\ FoundMarkers(calls[1])) =>
        /\ ~calls[2].returned
        /\ calls[2].after = calls[2].before
        /\ OutsidePreserved(calls[1])
        /\ OutsidePreserved(calls[2])

====
